---- MODULE Spec2Model ----
(***************************************************************************)
(* A model of koggi's binary resolver (src/koggi/binaries.py), of its      *)
(* backup selector (src/koggi/ui/backup_selector.py) and of the restore    *)
(* entry point (src/koggi/database/restore.py).                            *)
(*                                                                         *)
(* Strings whose characters matter (architecture names, lower-cased by     *)
(* the code) are sequences of one-character strings.  Filesystem paths     *)
(* are sequences of path components.                                       *)
(***************************************************************************)
EXTENDS Integers, Sequences, FiniteSets, TLC

VARIABLES
    pc,             \* position of the process
    \* ---- binaries.py
    sys_platform,   \* sys.platform
    machine,        \* platform.machine(), a sequence of characters
    arch,           \* the last value _normalize_arch returned
    environ,        \* os.environ: variable -> [set, val]
    fs,             \* the set of paths that exist
    name,           \* the tool requested of _require
    resolved,       \* what _require returned or raised
    chmodded,       \* the paths _ensure_executable made executable
    \* ---- backup_selector.py
    os_name,        \* os.name
    backup_dir,     \* the backup directory: [exists, entries in iterdir order]
    page_size,
    backup_files,   \* the listing taken by get_backup_files
    current_page,
    total_pages,
    inRead,         \* blocked in get_single_keypress's read
    lastKey,        \* what the last finished read delivered
    termMode,       \* the terminal's mode
    old_settings,   \* the mode get_single_keypress saved
    origMode,       \* the terminal's mode when the selector was invoked
    result,         \* the value the selector returned
    notice,         \* the last message printed
    screen          \* the page display_backup_page last printed

vars == <<pc, sys_platform, machine, arch, environ, fs, name, resolved, chmodded,
          os_name, backup_dir, page_size, backup_files, current_page, total_pages,
          inRead, lastKey, termMode, old_settings, origMode, result, notice, screen>>

binVars == <<sys_platform, machine, arch, environ, fs, name, resolved, chmodded>>

selVars == <<os_name, backup_dir, page_size, backup_files, current_page, total_pages,
             inRead, lastKey, termMode, old_settings, origMode, result, notice, screen>>

----------------------------------------------------------------------------
(* Characters and str.lower()                                              *)

LowerLetters ==
    <<"a","b","c","d","e","f","g","h","i","j","k","l","m",
      "n","o","p","q","r","s","t","u","v","w","x","y","z">>

UpperLetters ==
    <<"A","B","C","D","E","F","G","H","I","J","K","L","M",
      "N","O","P","Q","R","S","T","U","V","W","X","Y","Z">>

LowerChar(c) ==
    IF \E i \in DOMAIN UpperLetters : UpperLetters[i] = c
    THEN LowerLetters[CHOOSE i \in DOMAIN UpperLetters : UpperLetters[i] = c]
    ELSE c

UpperChar(c) ==
    IF \E i \in DOMAIN LowerLetters : LowerLetters[i] = c
    THEN UpperLetters[CHOOSE i \in DOMAIN LowerLetters : LowerLetters[i] = c]
    ELSE c

\* str.lower()
Lower(s) == [i \in DOMAIN s |-> LowerChar(s[i])]

----------------------------------------------------------------------------
(* binaries.py: platform detection                                         *)

A_x86_64  == <<"x","8","6","_","6","4">>
A_amd64   == <<"a","m","d","6","4">>
A_x64     == <<"x","6","4">>
A_aarch64 == <<"a","a","r","c","h","6","4">>
A_arm64   == <<"a","r","m","6","4">>
A_armv7l  == <<"a","r","m","v","7","l">>
A_armv7   == <<"a","r","m","v","7">>

NormalizeArch_NoLower(raw) ==
    IF raw \in {A_x86_64, A_amd64, A_x64} THEN A_x86_64
    ELSE IF raw \in {A_aarch64, A_arm64} THEN A_arm64
    ELSE IF raw \in {A_armv7l, A_armv7} THEN A_armv7
    ELSE raw

_normalize_arch(raw) ==
    LET r == Lower(raw) IN
    IF r \in {A_x86_64, A_amd64, A_x64} THEN A_x86_64
    ELSE IF r \in {A_aarch64, A_arm64} THEN A_arm64
    ELSE IF r \in {A_armv7l, A_armv7} THEN A_armv7
    ELSE r

PlatformInfo(o, a) == [os_name |-> o, arch |-> a]

\* PlatformInfo.tag: f"{os_name}-{arch}"
tag(info) == info.os_name \o <<"-">> \o info.arch

S_windows == <<"w","i","n","d","o","w","s">>
S_darwin  == <<"d","a","r","w","i","n">>
S_linux   == <<"l","i","n","u","x">>
S_win     == <<"w","i","n">>
S_exe     == <<".","e","x","e">>

\* PlatformInfo.exe_suffix
exe_suffix(info) == IF info.os_name = S_windows THEN S_exe ELSE <<>>

\* str.startswith
StartsWith(s, prefix) ==
    /\ Len(s) >= Len(prefix)
    /\ SubSeq(s, 1, Len(prefix)) = prefix

detect_platform(plat, mach) ==
    LET o == IF StartsWith(plat, S_win) THEN S_windows
             ELSE IF StartsWith(plat, S_darwin) THEN S_darwin
             ELSE IF StartsWith(plat, S_linux) THEN S_linux
             ELSE plat
    IN PlatformInfo(o, _normalize_arch(mach))

----------------------------------------------------------------------------
(* binaries.py: the four-source lookup                                     *)

T_pg_dump    == <<"p","g","_","d","u","m","p">>
T_psql       == <<"p","s","q","l">>
T_pg_restore == <<"p","g","_","r","e","s","t","o","r","e">>

Tools == {T_pg_dump, T_psql, T_pg_restore}

S_koggi == <<"k","o","g","g","i">>
S_bin   == <<"b","i","n">>
S__bin  == <<"_","b","i","n">>
S_cache == <<".","c","a","c","h","e">>

\* Optional[Path]
None == [ok |-> FALSE, path |-> <<>>]
Some(p) == [ok |-> TRUE, path |-> p]

\* nothing printed yet
NoScreen == [page |-> 0, of |-> 0, total |-> 0, rows |-> <<>>]

Unset == [set |-> FALSE, val |-> <<>>]
SetTo(v) == [set |-> TRUE, val |-> v]

\* Path.exists()
Exists(files, p) == p \in files

\* os.environ.get(var) is truthy: set, and not the empty string
Truthy(env, var) == env[var].set /\ env[var].val # <<>>

_env_override(env, files, var) ==
    IF Truthy(env, var) /\ Exists(files, env[var].val)
    THEN Some(env[var].val)
    ELSE None

\* pkg_files("koggi"): where the package is installed
InstallRoot == << <<"s","i","t","e">>, S_koggi >>

_embedded_dir(info) == InstallRoot \o <<S__bin, tag(info)>>

\* Path.home()
Home == << <<"h","o","m","e">> >>

UserCacheDir_AppendSuffix(env, info) ==
    LET root ==
            IF Truthy(env, "KOGGI_CACHE_DIR") THEN env["KOGGI_CACHE_DIR"].val
            ELSE IF info.os_name = S_windows
            THEN IF env["LOCALAPPDATA"].set THEN env["LOCALAPPDATA"].val
                 ELSE Home \o << <<"A","p","p","D","a","t","a">>, <<"L","o","c","a","l">> >>
            ELSE IF env["XDG_CACHE_HOME"].set THEN env["XDG_CACHE_HOME"].val
                 ELSE Home \o <<S_cache>>
    IN root \o <<S_koggi, S_bin, tag(info)>>

_user_cache_dir(env, info) ==
    IF Truthy(env, "KOGGI_CACHE_DIR") THEN env["KOGGI_CACHE_DIR"].val
    ELSE LET root ==
                 IF info.os_name = S_windows
                 THEN IF env["LOCALAPPDATA"].set THEN env["LOCALAPPDATA"].val
                      ELSE Home \o << <<"A","p","p","D","a","t","a">>, <<"L","o","c","a","l">> >>
                 ELSE IF env["XDG_CACHE_HOME"].set THEN env["XDG_CACHE_HOME"].val
                      ELSE Home \o <<S_cache>>
         IN root \o <<S_koggi, S_bin, tag(info)>>

\* the directories of PATH, in order
PathDirs == << << <<"u","s","r">>, S_bin >> >>

\* shutil.which(name): the first directory of PATH holding the executable
\* (on Windows the name is tried with the executable extension)
which(files, info, tool) ==
    LET hits == {i \in DOMAIN PathDirs :
                    Exists(files, PathDirs[i] \o <<tool \o exe_suffix(info)>>)}
    IN IF hits = {} THEN None
       ELSE LET i == CHOOSE i \in hits : \A j \in hits : i <= j
            IN Some(PathDirs[i] \o <<tool \o exe_suffix(info)>>)

env_map(tool) ==
    CASE tool = T_pg_dump    -> "KOGGI_PG_DUMP"
      [] tool = T_psql       -> "KOGGI_PSQL"
      [] tool = T_pg_restore -> "KOGGI_PG_RESTORE"

LookupBinary_CacheFirst(env, files, info, tool) ==
    LET exe   == tool \o exe_suffix(info)
        p     == IF tool \in Tools THEN _env_override(env, files, env_map(tool)) ELSE None
        cand  == _embedded_dir(info) \o <<exe>>
        cand2 == _user_cache_dir(env, info) \o <<exe>>
    IN IF p.ok THEN p
       ELSE IF Exists(files, cand2) THEN Some(cand2)
       ELSE IF Exists(files, cand) THEN Some(cand)
       ELSE which(files, info, tool)

_lookup_binary(env, files, info, tool) ==
    LET exe   == tool \o exe_suffix(info)
        p     == IF tool \in Tools THEN _env_override(env, files, env_map(tool)) ELSE None
        cand  == _embedded_dir(info) \o <<exe>>
        cand2 == _user_cache_dir(env, info) \o <<exe>>
    IN IF p.ok THEN p
       ELSE IF Exists(files, cand) THEN Some(cand)
       ELSE IF Exists(files, cand2) THEN Some(cand2)
       ELSE which(files, info, tool)

\* _ensure_executable: the paths whose mode gains the executable bits
_ensure_executable(files, osname, p) ==
    IF Exists(files, p) /\ osname # "nt" THEN {p} ELSE {}

\* _require(name): the lookup, then KoggiError or chmod and return
Require ==
    /\ pc = "ready"
    /\ LET info == detect_platform(sys_platform, machine)
           p    == _lookup_binary(environ, fs, info, name)
       IN /\ arch' = info.arch
          /\ IF ~p.ok
             THEN /\ resolved' = [kind |-> "KoggiError", path |-> <<>>]
                  /\ chmodded' = {}
             ELSE /\ resolved' = [kind |-> "path", path |-> p.path]
                  /\ chmodded' = _ensure_executable(fs, os_name, p.path)
    /\ pc' = "required"
    /\ UNCHANGED <<sys_platform, machine, environ, fs, name>>
    /\ UNCHANGED selVars

(* The inputs of the lookup: a platform, an environment and a filesystem.  *)

P_win32  == <<"w","i","n","3","2">>
P_linux  == <<"l","i","n","u","x">>
P_darwin == <<"d","a","r","w","i","n">>

\* hosts: sys.platform, platform.machine(), os.name, and whether the
\* variable naming the OS cache root may be set or unset
Hosts ==
    { [plat |-> P_win32,  mach |-> <<"A","M","D","6","4">>, osn |-> "nt",
       rootvar |-> "LOCALAPPDATA", rootset |-> {TRUE}],
      [plat |-> P_linux,  mach |-> A_x86_64, osn |-> "posix",
       rootvar |-> "XDG_CACHE_HOME", rootset |-> {TRUE, FALSE}],
      [plat |-> P_darwin, mach |-> A_arm64, osn |-> "posix",
       rootvar |-> "XDG_CACHE_HOME", rootset |-> {FALSE}] }

EnvVars == {"KOGGI_PG_DUMP", "KOGGI_PSQL", "KOGGI_PG_RESTORE",
            "KOGGI_CACHE_DIR", "XDG_CACHE_HOME", "LOCALAPPDATA"}

\* the values the environment variables take when set
OverrideTarget(tool) == << <<"o","p","t">>, tool >>
KoggiCacheDir == << <<"k","c">> >>
OsRootDir == << <<"v","a","r">>, <<"c","a","c","h","e">> >>

\* the per-tool override variable, as documented (KOGGI_<TOOL>)
OverrideVar(tool) ==
    CASE tool = T_pg_dump    -> "KOGGI_PG_DUMP"
      [] tool = T_psql       -> "KOGGI_PSQL"
      [] tool = T_pg_restore -> "KOGGI_PG_RESTORE"

\* the OS-conventional cache root
OsCacheRoot(env, plat) ==
    IF plat = P_win32
    THEN IF env["LOCALAPPDATA"].set THEN env["LOCALAPPDATA"].val
         ELSE Home \o << <<"A","p","p","D","a","t","a">>, <<"L","o","c","a","l">> >>
    ELSE IF env["XDG_CACHE_HOME"].set THEN env["XDG_CACHE_HOME"].val
         ELSE Home \o <<S_cache>>

\* the name of the platform directory and of the executable on a host
HostTag(plat) ==
    CASE plat = P_win32  -> S_windows \o <<"-">> \o A_x86_64
      [] plat = P_linux  -> S_linux \o <<"-">> \o A_x86_64
      [] plat = P_darwin -> S_darwin \o <<"-">> \o A_arm64

HostExe(plat, tool) == IF plat = P_win32 THEN tool \o S_exe ELSE tool

\* <cacheRoot>/koggi/bin/<platformTag>/<tool><exeSuffix>
LayoutCandidate(root, plat, tool) ==
    root \o <<S_koggi, S_bin, HostTag(plat), HostExe(plat, tool)>>

EmbeddedCandidate(plat, tool) ==
    InstallRoot \o <<S__bin, HostTag(plat), HostExe(plat, tool)>>

PathCandidate(plat, tool) == PathDirs[1] \o <<HostExe(plat, tool)>>

\* the files that may exist
Universe(env, plat, tool) ==
    {OverrideTarget(t) : t \in Tools}
    \cup { EmbeddedCandidate(plat, tool),
           KoggiCacheDir \o <<HostExe(plat, tool)>>,
           LayoutCandidate(KoggiCacheDir, plat, tool),
           LayoutCandidate(OsCacheRoot(env, plat), plat, tool),
           PathCandidate(plat, tool) }

NoResolved == [kind |-> "none", path |-> <<>>]

\* the selector's variables while the resolver runs
SelIdle(osn) ==
    /\ os_name = osn
    /\ backup_dir = [exists |-> FALSE, entries |-> <<>>]
    /\ page_size = 1
    /\ backup_files = <<>>
    /\ current_page = 0
    /\ total_pages = 0
    /\ inRead = FALSE
    /\ lastKey = "none"
    /\ termMode = "cooked"
    /\ old_settings = "cooked"
    /\ origMode = "cooked"
    /\ result = None
    /\ notice = "none"
    /\ screen = NoScreen

InitResolve ==
    /\ pc = "ready"
    /\ \E h \in Hosts :
          /\ sys_platform = h.plat
          /\ machine = h.mach
          /\ SelIdle(h.osn)
          /\ \E ov \in SUBSET Tools,
                kcd \in {Unset, SetTo(<<>>), SetTo(KoggiCacheDir)},
                rs \in h.rootset :
                environ = [v \in EnvVars |->
                             IF v = "KOGGI_CACHE_DIR" THEN kcd
                             ELSE IF v = h.rootvar
                             THEN (IF rs THEN SetTo(OsRootDir) ELSE Unset)
                             ELSE IF \E t \in ov : OverrideVar(t) = v
                             THEN SetTo(OverrideTarget(CHOOSE t \in ov : OverrideVar(t) = v))
                             ELSE Unset]
    /\ name \in Tools
    /\ fs \in SUBSET Universe(environ, sys_platform, name)
    /\ arch = <<>>
    /\ resolved = NoResolved
    /\ chmodded = {}

\* restore.py: the suffixes restored with pg_restore; everything else goes
\* to psql
ArchiveSuffixes == { <<".","b","a","c","k","u","p">>, <<".","d","u","m","p">> }

\* the suffixes of the backup files handed to restore_database
UsedSuffixes ==
    ArchiveSuffixes \cup { <<".","s","q","l">>, <<".","D","U","M","P">>, <<".","t","x","t">> }

\* the tool restore_database runs for a backup file of that suffix
RestoreTool(sfx) == IF Lower(sfx) \in ArchiveSuffixes THEN T_pg_restore ELSE T_psql

\* restore_database's tool lookup: shutil.which alone
RestoreLookup(env, files, info, tool) == which(files, info, tool)

\* restore_database on an existing backup file: cmd[0] of the subprocess, or
\* KoggiError("<tool> not found in PATH.")
Restore ==
    /\ pc = "ready"
    /\ \E sfx \in UsedSuffixes : RestoreTool(sfx) = name
    /\ LET info == detect_platform(sys_platform, machine)
           p    == RestoreLookup(environ, fs, info, name)
       IN resolved' = IF p.ok THEN [kind |-> "path", path |-> p.path]
                      ELSE [kind |-> "KoggiError_not_found_in_PATH", path |-> <<>>]
    /\ pc' = "restored"
    /\ UNCHANGED <<sys_platform, machine, arch, environ, fs, name, chmodded>>
    /\ UNCHANGED selVars

NextResolve == Require \/ Restore

SpecResolve == InitResolve /\ [][NextResolve]_vars

----------------------------------------------------------------------------
(* Claims about the resolver (under SpecResolve)                           *)

\* the four sources, in priority order, each with the path it would yield
OverrideSet == environ[OverrideVar(name)].set /\ environ[OverrideVar(name)].val # <<>>
CacheRootOverridden == environ["KOGGI_CACHE_DIR"].set /\ environ["KOGGI_CACHE_DIR"].val # <<>>

\* the cache directory the resolver searches
SearchedCacheCandidate ==
    IF CacheRootOverridden
    THEN environ["KOGGI_CACHE_DIR"].val \o <<HostExe(sys_platform, name)>>
    ELSE LayoutCandidate(OsCacheRoot(environ, sys_platform), sys_platform, name)

SourcePaths ==
    << environ[OverrideVar(name)].val,
       EmbeddedCandidate(sys_platform, name),
       SearchedCacheCandidate,
       PathCandidate(sys_platform, name) >>

SourceHas(i) ==
    /\ i = 1 => OverrideSet
    /\ SourcePaths[i] \in fs

\* C1: resolution returns the path of the highest-priority source (override,
\* embedded directory, user cache, PATH) that contains the file, and raises
\* KoggiError exactly when no source contains it.
C1_HighestPrioritySource ==
    pc = "required" =>
        /\ resolved.kind = "KoggiError" <=> \A i \in 1..4 : ~SourceHas(i)
        /\ \A i \in 1..4 :
              (SourceHas(i) /\ \A j \in 1..(i-1) : ~SourceHas(j))
                  => resolved = [kind |-> "path", path |-> SourcePaths[i]]

\* the cache wins over PATH although the override names a missing file
C1_Witness ==
    /\ pc = "required"
    /\ OverrideSet
    /\ ~SourceHas(1) /\ ~SourceHas(2) /\ SourceHas(3) /\ SourceHas(4)
    /\ resolved = [kind |-> "path", path |-> SourcePaths[3]]

\* the cache candidate as the layout convention states it
ConventionalCacheCandidate ==
    LayoutCandidate(IF CacheRootOverridden THEN environ["KOGGI_CACHE_DIR"].val
                    ELSE OsCacheRoot(environ, sys_platform),
                    sys_platform, name)

\* what resolution yields when neither the override nor the embedded directory
\* has the tool and the cache candidate is cand
CacheCandidateIs(cand) ==
    (pc = "required" /\ ~SourceHas(1) /\ ~SourceHas(2)) =>
        IF cand \in fs
        THEN resolved = [kind |-> "path", path |-> cand]
        ELSE resolved.kind = "path" => resolved.path = PathCandidate(sys_platform, name)

\* C10 (as stated): the cache candidate is <cacheRoot>/koggi/bin/<tag>/<tool><exe>
\* both when KOGGI_CACHE_DIR is set and when it is not.
C10_SuffixAlwaysAppended == CacheCandidateIs(ConventionalCacheCandidate)

\* C10 (amended): the cache candidate is $KOGGI_CACHE_DIR/<tool><exe> when
\* KOGGI_CACHE_DIR is set to a non-empty value, and
\* <OS cache root>/koggi/bin/<tag>/<tool><exe> otherwise.
C10_OverrideIsTheDirectory ==
    /\ CacheCandidateIs(SearchedCacheCandidate)
    /\ (pc = "required" /\ CacheRootOverridden /\ resolved.kind = "path")
          => resolved.path # ConventionalCacheCandidate

\* the tool is found directly under $KOGGI_CACHE_DIR
C10_Witness ==
    /\ pc = "required"
    /\ CacheRootOverridden
    /\ ConventionalCacheCandidate \in fs
    /\ resolved = [kind |-> "path",
                   path |-> KoggiCacheDir \o <<HostExe(sys_platform, name)>>]

----------------------------------------------------------------------------
(* Architecture normalization on its own (SpecArch)                        *)

\* machine names, to be taken in every mix of upper and lower case
BaseArchs ==
    { A_x86_64, A_amd64, A_x64, A_aarch64, A_arm64, A_armv7l, A_armv7,
      <<"i","3","8","6">>, <<"p","p","c","6","4","l","e">>,
      <<"r","i","s","c","v","6","4">>, <<"a","r","m">>, <<"x","8","6">>,
      <<"a","m","d","6","4"," ">>, <<>> }

ApplyCase(w, mask) == [i \in DOMAIN w |-> IF i \in mask THEN UpperChar(w[i]) ELSE w[i]]

ArchInputs == UNION { {ApplyCase(w, mask) : mask \in SUBSET (DOMAIN w)} : w \in BaseArchs }

InitArch ==
    /\ pc = "raw"
    /\ machine \in ArchInputs
    /\ arch = <<>>
    /\ sys_platform = P_linux
    /\ environ = [v \in EnvVars |-> Unset]
    /\ fs = {}
    /\ name = T_psql
    /\ resolved = NoResolved
    /\ chmodded = {}
    /\ SelIdle("posix")

\* arch = _normalize_arch(platform.machine())
Normalize ==
    /\ pc = "raw"
    /\ arch' = _normalize_arch(machine)
    /\ pc' = "normalized"
    /\ UNCHANGED <<sys_platform, machine, environ, fs, name, resolved, chmodded>>
    /\ UNCHANGED selVars

\* the normalized name is normalized again
NormalizeAgain ==
    /\ pc = "normalized"
    /\ machine' = arch
    /\ arch' = _normalize_arch(arch)
    /\ pc' = "twice"
    /\ UNCHANGED <<sys_platform, environ, fs, name, resolved, chmodded>>
    /\ UNCHANGED selVars

NextArch == Normalize \/ NormalizeAgain

SpecArch == InitArch /\ [][NextArch]_vars

\* d is the lower-case form of c
IsLowerOf(c, d) ==
    \/ \E i \in DOMAIN UpperLetters : UpperLetters[i] = c /\ LowerLetters[i] = d
    \/ (\A i \in DOMAIN UpperLetters : UpperLetters[i] # c) /\ d = c

\* s spells word w in some mix of cases
Spells(s, w) == Len(s) = Len(w) /\ \A i \in DOMAIN w : IsLowerOf(s[i], w[i])

\* C9: normalization is total and idempotent; the aliases of x86_64, arm64 and
\* armv7 map to them whatever their case, every other name to its lower case.
C9_NormalizeIdempotent ==
    /\ pc \in {"normalized", "twice"} =>
          /\ (\E w \in {A_x86_64, A_amd64, A_x64} : Spells(machine, w)) => arch = A_x86_64
          /\ (\E w \in {A_aarch64, A_arm64} : Spells(machine, w)) => arch = A_arm64
          /\ (\E w \in {A_armv7l, A_armv7} : Spells(machine, w)) => arch = A_armv7
          /\ (\A w \in {A_x86_64, A_amd64, A_x64, A_aarch64, A_arm64, A_armv7l, A_armv7} :
                 ~Spells(machine, w)) => Spells(machine, arch)
    /\ pc = "twice" => arch = machine

\* an alias of x86_64 normalized twice
C9_Witness ==
    /\ pc = "twice"
    /\ arch = A_x86_64
    /\ machine = A_x86_64

----------------------------------------------------------------------------
(* backup_selector.py: listing a backup directory                          *)

E_sql    == <<".","s","q","l">>
E_backup == <<".","b","a","c","k","u","p">>
E_dump   == <<".","d","u","m","p">>

BackupSuffixes == {E_sql, E_backup, E_dump}

\* Path.suffix: the file name from its last dot, when that dot is neither
\* the first nor the last character
suffix(fname) ==
    LET dots == {i \in DOMAIN fname : fname[i] = "."} IN
    IF dots = {} THEN <<>>
    ELSE LET last == CHOOSE i \in dots : \A j \in dots : j <= i
         IN IF last = 1 \/ last = Len(fname) THEN <<>>
            ELSE SubSeq(fname, last, Len(fname))

\* datetime.fromtimestamp(st_mtime): st_mtime counts half microseconds, a
\* datetime whole microseconds
fromtimestamp(t) == t \div 2

\* the insertion point that keeps a newest-first list sorted and stable
RECURSIVE InsertByTime(_, _)
InsertByTime(sorted, x) ==
    IF sorted = <<>> THEN <<x>>
    ELSE IF Head(sorted).modified_time >= x.modified_time
         THEN <<Head(sorted)>> \o InsertByTime(Tail(sorted), x)
         ELSE <<x>> \o sorted

\* list.sort(key=lambda x: x[1], reverse=True)
RECURSIVE SortNewestFirst(_)
SortNewestFirst(items) ==
    IF items = <<>> THEN <<>>
    ELSE InsertByTime(SortNewestFirst(SubSeq(items, 1, Len(items) - 1)),
                      items[Len(items)])

IsBackupFile(e) == e.is_file /\ Lower(suffix(e.name)) \in BackupSuffixes

BackupTuple(e) ==
    [path |-> e.name, modified_time |-> fromtimestamp(e.st_mtime), size |-> e.st_size]

GetBackupFiles_OldestFirst(dir) ==
    IF ~dir.exists THEN <<>>
    ELSE LET kept == SelectSeq(dir.entries, LAMBDA e : IsBackupFile(e) /\ e.stat_ok)
             tuples == [i \in DOMAIN kept |-> BackupTuple(kept[i])]
             sorted == SortNewestFirst(tuples)
         IN [i \in DOMAIN sorted |-> sorted[Len(sorted) + 1 - i]]

get_backup_files(dir) ==
    IF ~dir.exists THEN <<>>
    ELSE LET kept == SelectSeq(dir.entries, LAMBDA e : IsBackupFile(e) /\ e.stat_ok)
         IN SortNewestFirst([i \in DOMAIN kept |-> BackupTuple(kept[i])])

QuickLatest_Oldest(dir) ==
    LET files == get_backup_files(dir) IN
    IF files = <<>> THEN None ELSE Some(files[Len(files)].path)

quick_latest_selector(dir) ==
    LET files == get_backup_files(dir) IN
    IF files = <<>> THEN None ELSE Some(files[1].path)

(* The directories listed: up to MaxEntries children, in any iterdir order *)

MaxEntries == 4

File(fname, t) ==
    [name |-> fname, st_mtime |-> t, st_size |-> Len(fname), is_file |-> TRUE, stat_ok |-> TRUE]

F_a_sql    == <<"a">> \o E_sql
F_b_dump   == <<"b">> \o E_dump
F_c_backup == <<"c">> \o E_backup
F_d_txt    == <<"d",".","t","x","t">>

Children ==
    { File(F_a_sql, 2), File(F_b_dump, 4), File(F_c_backup, 6), File(F_d_txt, 8),
      File(<<"e",".","S","Q","L">>, 5),
      File(<<"h",".","B","a","c","k","u","p">>, 6),
      [File(<<"f">> \o E_dump, 10) EXCEPT !.is_file = FALSE],
      [File(<<"g">> \o E_sql, 12) EXCEPT !.stat_ok = FALSE] }

Range(q) == {q[i] : i \in DOMAIN q}

Orderings(S) ==
    {q \in UNION {[1..n -> S] : n \in 0..MaxEntries} :
        \A i, j \in DOMAIN q : i # j => q[i] # q[j]}

MissingDir == [exists |-> FALSE, entries |-> <<>>]

ListDirs == {MissingDir} \cup {[exists |-> TRUE, entries |-> q] : q \in Orderings(Children)}

\* the resolver's variables while the selector runs
BinIdle ==
    /\ sys_platform = P_linux
    /\ machine = A_x86_64
    /\ arch = <<>>
    /\ environ = [v \in EnvVars |-> Unset]
    /\ fs = {}
    /\ name = T_psql
    /\ resolved = NoResolved
    /\ chmodded = {}

\* restore.py, _pick_latest_backup: max(candidates, key=st_mtime) keeps the
\* first candidate of the largest st_mtime and calls stat on every candidate
_pick_latest_backup(dir) ==
    IF ~dir.exists THEN [kind |-> "none", path |-> <<>>]
    ELSE LET candidates == SelectSeq(dir.entries,
                               LAMBDA e : e.is_file /\ Lower(suffix(e.name)) \in BackupSuffixes)
         IN IF candidates = <<>> THEN [kind |-> "none", path |-> <<>>]
            ELSE IF \E i \in DOMAIN candidates : ~candidates[i].stat_ok
            THEN [kind |-> "OSError", path |-> <<>>]
            ELSE LET best == CHOOSE i \in DOMAIN candidates :
                                /\ \A k \in DOMAIN candidates :
                                      candidates[k].st_mtime <= candidates[i].st_mtime
                                /\ \A k \in DOMAIN candidates :
                                      candidates[k].st_mtime = candidates[i].st_mtime => i <= k
                 IN [kind |-> "path", path |-> candidates[best].name]

\* a PATH that holds both restore tools
ToolsOnPath == {PathCandidate(P_linux, T_psql), PathCandidate(P_linux, T_pg_restore)}

InitList ==
    /\ pc = "idle"
    /\ backup_dir \in ListDirs
    /\ os_name = "posix"
    /\ page_size = 1
    /\ backup_files = <<>>
    /\ current_page = 0
    /\ total_pages = 0
    /\ inRead = FALSE
    /\ lastKey = "none"
    /\ termMode = "cooked"
    /\ old_settings = "cooked"
    /\ origMode = "cooked"
    /\ result = None
    /\ notice = "none"
    /\ screen = NoScreen
    /\ sys_platform = P_linux
    /\ machine = A_x86_64
    /\ arch = <<>>
    /\ environ = [v \in EnvVars |-> Unset]
    /\ fs \in {{}, ToolsOnPath}
    /\ name = T_psql
    /\ resolved = NoResolved
    /\ chmodded = {}

\* get_backup_files(backup_dir)
ListBackups ==
    /\ pc = "idle"
    /\ backup_files' = get_backup_files(backup_dir)
    /\ pc' = "listed"
    /\ UNCHANGED <<os_name, backup_dir, page_size, current_page, total_pages, inRead,
                   lastKey, termMode, old_settings, origMode, result, notice, screen>>
    /\ UNCHANGED binVars

\* quick_latest_selector(backup_dir)
QuickLatest ==
    /\ pc = "idle"
    /\ backup_files' = get_backup_files(backup_dir)
    /\ result' = quick_latest_selector(backup_dir)
    /\ pc' = "latest"
    /\ UNCHANGED <<os_name, backup_dir, page_size, current_page, total_pages, inRead,
                   lastKey, termMode, old_settings, origMode, notice, screen>>
    /\ UNCHANGED binVars

\* restore_database(profile) with no backup file given
RestoreLatest ==
    /\ pc = "idle"
    /\ LET used_file == _pick_latest_backup(backup_dir)
           info      == detect_platform(sys_platform, machine)
           tool      == RestoreTool(suffix(used_file.path))
           exe       == RestoreLookup(environ, fs, info, tool)
       IN CASE used_file.kind = "OSError" ->
                  /\ notice' = "OSError"
                  /\ result' = None
                  /\ resolved' = resolved
            [] used_file.kind = "none" ->
                  /\ notice' = "KoggiError_no_backup_file"
                  /\ result' = None
                  /\ resolved' = resolved
            [] used_file.kind = "path" /\ ~exe.ok ->
                  /\ notice' = "KoggiError_not_found_in_PATH"
                  /\ result' = None
                  /\ resolved' = [kind |-> "KoggiError_not_found_in_PATH", path |-> <<>>]
            [] used_file.kind = "path" /\ exe.ok ->
                  /\ notice' = "restored"
                  /\ result' = Some(used_file.path)
                  /\ resolved' = [kind |-> "path", path |-> exe.path]
    /\ pc' = "restore_latest"
    /\ UNCHANGED <<os_name, backup_dir, page_size, backup_files, current_page, total_pages,
                   inRead, lastKey, termMode, old_settings, origMode, screen>>
    /\ UNCHANGED <<sys_platform, machine, arch, environ, fs, name, chmodded>>

NextList == ListBackups \/ QuickLatest \/ RestoreLatest

SpecList == InitList /\ [][NextList]_vars

----------------------------------------------------------------------------
(* Claims about the listing (under SpecList)                               *)

\* fname ends, in any mix of cases, with extension ext
HasExtension(fname, ext) ==
    /\ Len(fname) > Len(ext)
    /\ Spells(SubSeq(fname, Len(fname) - Len(ext) + 1, Len(fname)), ext)

\* a direct child the listing must show
Eligible(e) ==
    /\ e.is_file
    /\ e.stat_ok
    /\ \E ext \in BackupSuffixes : HasExtension(e.name, ext)

\* where the file named p stands in iterdir order
PlaceOf(p) == CHOOSE i \in DOMAIN backup_dir.entries : backup_dir.entries[i].name = p

NamesOf(dir) == {dir.entries[i].name : i \in DOMAIN dir.entries}

\* C7: the listing holds exactly the stat-able regular files with extension
\* .sql, .backup or .dump (in any case), newest first, entries of equal time
\* in directory order; a missing directory lists as empty.
C7_ListingNewestFirst ==
    pc = "listed" =>
        /\ ~backup_dir.exists => backup_files = <<>>
        /\ {backup_files[i].path : i \in DOMAIN backup_files}
              = {e.name : e \in {x \in Range(backup_dir.entries) : Eligible(x)}}
        /\ \A i, j \in DOMAIN backup_files : i < j =>
              /\ backup_files[i].path # backup_files[j].path
              /\ backup_files[i].modified_time >= backup_files[j].modified_time
              /\ backup_files[i].modified_time = backup_files[j].modified_time
                    => PlaceOf(backup_files[i].path) < PlaceOf(backup_files[j].path)
        /\ \A i \in DOMAIN backup_files :
              LET e == backup_dir.entries[PlaceOf(backup_files[i].path)]
              IN /\ backup_files[i].modified_time = fromtimestamp(e.st_mtime)
                 /\ backup_files[i].size = e.st_size
        /\ NamesOf(backup_dir) = {F_a_sql, F_b_dump, F_c_backup, F_d_txt}
              => [i \in DOMAIN backup_files |-> backup_files[i].path]
                    = <<F_c_backup, F_b_dump, F_a_sql>>

\* a directory with a tie, an upper-case extension, a subdirectory and a file
\* that cannot be stat'ed
C7_Witness ==
    /\ pc = "listed"
    /\ Len(backup_dir.entries) = MaxEntries
    /\ \E i \in DOMAIN backup_dir.entries : ~backup_dir.entries[i].stat_ok
    /\ \E i, j \in DOMAIN backup_files :
          /\ i < j
          /\ backup_files[i].modified_time = backup_files[j].modified_time
          /\ \E k \in DOMAIN backup_files[j].path : backup_files[j].path[k] = "S"

\* C8: quick_latest_selector returns none for an empty or missing directory,
\* else the file at index 0 of the newest-first listing, and reads no key.
C8_LatestIsFirstOfListing ==
    pc = "latest" =>
        LET eligible == {i \in DOMAIN backup_dir.entries : Eligible(backup_dir.entries[i])}
            time(i)  == fromtimestamp(backup_dir.entries[i].st_mtime)
        IN /\ (~backup_dir.exists \/ eligible = {}) <=> result = None
           /\ eligible # {} =>
                 /\ result.ok
                 /\ result.path = get_backup_files(backup_dir)[1].path
                 /\ \E i \in eligible :
                       /\ result.path = backup_dir.entries[i].name
                       /\ \A j \in eligible : time(j) <= time(i)
                       /\ \A j \in eligible : time(j) = time(i) => i <= j
           /\ lastKey = "none" /\ ~inRead /\ termMode = origMode

\* the newest file is one of two of equal time, and not the first child
C8_Witness ==
    /\ pc = "latest"
    /\ result.ok
    /\ Len(backup_files) >= 3
    /\ backup_files[1].modified_time = backup_files[2].modified_time
    /\ backup_dir.entries[1].name # result.path

----------------------------------------------------------------------------
(* backup_selector.py: the interactive selector                            *)
(*                                                                         *)
(* pc is the call of get_single_keypress the loop stands at: "prompt"      *)
(* (line 169), "pause" (a notice, lines 183, 192, 212, 218), "help" (line  *)
(* 143), "handler" (line 226, in the generic except clause); or how the    *)
(* selector ended: "nofiles", "selected", "cancelled" (all three return),  *)
(* "raised" (an exception leaves the selector).  inRead tells whether the  *)
(* call is blocked in its read.  termMode is the mode of the terminal on   *)
(* stdin, "notty" when stdin is no terminal.                               *)

DefaultPageSize == 10
MaxPageSize == 3
MaxFiles == 10

PageSizes == (1..MaxPageSize) \cup {DefaultPageSize}

ReadPoints == {"prompt", "pause", "help", "handler"}
Ended == {"nofiles", "selected", "cancelled", "raised"}

DigitChars == <<"0","1","2","3","4","5","6","7","8","9">>

\* the characters a read may deliver; "" is what read(1) gives at end of input
RawKeys == {"q", "Q", "n", "N", "p", "h", "x", ""} \cup Range(DigitChars)

\* str.isdigit() and int()
isdigit(key) == \E i \in DOMAIN DigitChars : DigitChars[i] = key
int(key) == (CHOOSE i \in DOMAIN DigitChars : DigitChars[i] = key) - 1

Min(a, b) == IF a <= b THEN a ELSE b

\* total_pages = (len(backup_files) + page_size - 1) // page_size
PageCount(n, size) == (n + size - 1) \div size

NextPage_NoGuard(page, total) == page + 1

\* on 'n'
NextPage(page, total) == IF page < total - 1 THEN page + 1 ELSE page

PrevPage_NoGuard(page) == page - 1

\* on 'p'
PrevPage(page) == IF page > 0 THEN page - 1 ELSE page

\* 1 <= choice <= min(page_size, len(backup_files) - start_idx)
ValidChoice(choice, page, size, n) ==
    1 <= choice /\ choice <= Min(size, n - page * size)

SelectedIdx_IgnoresPage(choice, page, size) == choice - 1

\* selected_idx = start_idx + choice - 1, an index from 0
SelectedIdx(choice, page, size) == page * size + choice - 1

Command_QuitCaseSensitive(raw) ==
    LET key == LowerChar(raw) IN
    CASE raw = "q" -> "quit"
      [] key = "n" -> "next"
      [] key = "p" -> "prev"
      [] key = "h" -> "help"
      [] isdigit(key) -> "digit"
      [] OTHER -> "other"

\* the branch of the if/elif chain a character takes, lower-cased first
Command(raw) ==
    LET key == LowerChar(raw) IN
    CASE key = "q" -> "quit"
      [] key = "n" -> "next"
      [] key = "p" -> "prev"
      [] key = "h" -> "help"
      [] isdigit(key) -> "digit"
      [] OTHER -> "other"

ModeOnExit_NoFinally(saved, current, outcome) ==
    IF outcome \in {"KeyboardInterrupt", "EOFError", "Error"} THEN current ELSE saved

\* get_single_keypress's finally clause: tcsetattr(fd, TCSADRAIN, old_settings)
ModeOnExit(saved, current, outcome) == saved

\* where an exception raised by a call of get_single_keypress leads: the calls
\* in the try block are covered by the two except clauses, the call in the
\* second except clause by none
AfterException(at, exc) ==
    IF at = "handler" THEN "raised"
    ELSE IF exc \in {"KeyboardInterrupt", "EOFError"} THEN "cancelled"
    ELSE "handler"

AfterKeypress_QuitAnywhere(at, raw) ==
    IF LowerChar(raw) = "q" THEN "cancelled" ELSE "prompt"

\* where a key read at a notice, at the help screen or in the handler leads:
\* the value is dropped and the loop starts over
AfterKeypress(at, raw) == "prompt"

\* display_backup_page: the header "Page p of t, Total: n files" and one row
\* per file of the page, numbered idx = start_idx + i + 1
display_backup_page(files, page, size) ==
    LET start_idx == page * size
        end_idx   == Min(start_idx + size, Len(files))
    IN [page  |-> page + 1,
        of    |-> (Len(files) + size - 1) \div size,
        total |-> Len(files),
        rows  |-> [i \in 1..(IF start_idx >= 0 /\ end_idx > start_idx
                              THEN end_idx - start_idx ELSE 0) |->
                     [idx |-> start_idx + (i - 1) + 1, name |-> files[start_idx + i].path]]]

\* the top of the loop prints the page again
Redisplay ==
    screen' = IF pc' = "prompt"
              THEN display_backup_page(backup_files', current_page', page_size)
              ELSE screen

\* what the terminal and lastKey become when a blocked read ends
EndRead(outcome) ==
    /\ inRead
    /\ inRead' = FALSE
    /\ lastKey' = outcome
    /\ termMode' = IF os_name = "nt" THEN termMode
                   ELSE ModeOnExit(old_settings, termMode, outcome)
    /\ UNCHANGED <<os_name, backup_dir, page_size, backup_files, total_pages,
                   old_settings, origMode>>
    /\ UNCHANGED binVars

\* interactive_backup_selector(backup_dir, page_size), up to its first read
Invoke ==
    /\ pc = "idle"
    /\ backup_files' = get_backup_files(backup_dir)
    /\ current_page' = 0
    /\ IF backup_files' = <<>>
       THEN /\ notice' = "no_files"
            /\ total_pages' = 0
            /\ pc' = "nofiles"
       ELSE /\ notice' = "page"
            /\ total_pages' = PageCount(Len(backup_files'), page_size)
            /\ pc' = "prompt"
    /\ result' = None
    /\ UNCHANGED <<os_name, backup_dir, page_size, inRead, lastKey, termMode,
                   old_settings, origMode>>
    /\ UNCHANGED binVars
    /\ Redisplay

\* get_single_keypress up to the blocking read: tcgetattr, setraw (or getch)
EnterRead ==
    /\ pc \in ReadPoints
    /\ ~inRead
    /\ os_name = "posix" => termMode # "notty"
    /\ inRead' = TRUE
    /\ IF os_name = "nt"
       THEN UNCHANGED <<termMode, old_settings>>
       ELSE /\ old_settings' = termMode
            /\ termMode' = "raw"
    /\ UNCHANGED <<pc, os_name, backup_dir, page_size, backup_files, current_page,
                   total_pages, lastKey, origMode, result, notice, screen>>
    /\ UNCHANGED binVars

\* stdin is no terminal: tcgetattr raises termios.error before raw mode
EnterReadFails ==
    /\ pc \in ReadPoints
    /\ ~inRead
    /\ os_name = "posix"
    /\ termMode = "notty"
    /\ lastKey' = "Error"
    /\ pc' = AfterException(pc, "Error")
    /\ notice' = IF pc' = "handler" THEN "error" ELSE notice
    /\ UNCHANGED <<os_name, backup_dir, page_size, backup_files, current_page,
                   total_pages, inRead, termMode, old_settings, origMode, result>>
    /\ UNCHANGED binVars
    /\ Redisplay

\* the read ends with KeyboardInterrupt or EOFError
Interrupted ==
    /\ pc \in ReadPoints
    /\ \E exc \in {"KeyboardInterrupt", "EOFError"} :
          /\ EndRead(exc)
          /\ pc' = AfterException(pc, exc)
    /\ notice' = IF pc' = "cancelled" THEN "cancelled" ELSE notice
    /\ result' = None
    /\ UNCHANGED current_page
    /\ Redisplay

\* the read ends with another exception (UnicodeDecodeError, OSError)
ReadFails ==
    /\ pc \in ReadPoints
    /\ EndRead("Error")
    /\ pc' = AfterException(pc, "Error")
    /\ notice' = IF pc' = "handler" THEN "error" ELSE notice
    /\ UNCHANGED <<current_page, result>>
    /\ Redisplay

\* 'q' at the prompt
KeyQuit ==
    /\ pc = "prompt"
    /\ \E raw \in RawKeys :
          /\ Command(raw) = "quit"
          /\ EndRead(LowerChar(raw))
    /\ notice' = "cancelled"
    /\ result' = None
    /\ pc' = "cancelled"
    /\ UNCHANGED current_page
    /\ Redisplay

\* 'n' at the prompt
KeyNext ==
    /\ pc = "prompt"
    /\ \E raw \in RawKeys :
          /\ Command(raw) = "next"
          /\ EndRead(LowerChar(raw))
    /\ IF current_page < total_pages - 1
       THEN /\ current_page' = NextPage(current_page, total_pages)
            /\ notice' = "page"
            /\ pc' = "prompt"
       ELSE /\ current_page' = NextPage(current_page, total_pages)
            /\ notice' = "last_page"
            /\ pc' = "pause"
    /\ UNCHANGED result
    /\ Redisplay

\* 'p' at the prompt
KeyPrev ==
    /\ pc = "prompt"
    /\ \E raw \in RawKeys :
          /\ Command(raw) = "prev"
          /\ EndRead(LowerChar(raw))
    /\ IF current_page > 0
       THEN /\ current_page' = PrevPage(current_page)
            /\ notice' = "page"
            /\ pc' = "prompt"
       ELSE /\ current_page' = PrevPage(current_page)
            /\ notice' = "first_page"
            /\ pc' = "pause"
    /\ UNCHANGED result
    /\ Redisplay

\* 'h' at the prompt: show_help
KeyHelp ==
    /\ pc = "prompt"
    /\ \E raw \in RawKeys :
          /\ Command(raw) = "help"
          /\ EndRead(LowerChar(raw))
    /\ notice' = "help"
    /\ pc' = "help"
    /\ UNCHANGED <<current_page, result>>
    /\ Redisplay

\* a digit at the prompt
KeyDigit ==
    /\ pc = "prompt"
    /\ \E raw \in RawKeys :
          /\ Command(raw) = "digit"
          /\ EndRead(LowerChar(raw))
          /\ LET choice == int(LowerChar(raw)) IN
             IF ValidChoice(choice, current_page, page_size, Len(backup_files))
             THEN /\ result' = Some(backup_files[SelectedIdx(choice, current_page, page_size) + 1].path)
                  /\ notice' = "selected"
                  /\ pc' = "selected"
             ELSE /\ result' = result
                  /\ notice' = "invalid_selection"
                  /\ pc' = "pause"
    /\ UNCHANGED current_page
    /\ Redisplay

\* any other key at the prompt
KeyOther ==
    /\ pc = "prompt"
    /\ \E raw \in RawKeys :
          /\ Command(raw) = "other"
          /\ EndRead(LowerChar(raw))
    /\ notice' = "invalid_key"
    /\ pc' = "pause"
    /\ UNCHANGED <<current_page, result>>
    /\ Redisplay

\* "Press any key to continue...": a key at a notice, at the help screen or
\* in the handler
Dismiss ==
    /\ pc \in {"pause", "help", "handler"}
    /\ \E raw \in RawKeys :
          /\ EndRead(LowerChar(raw))
          /\ pc' = AfterKeypress(pc, raw)
    /\ notice' = IF pc' = "cancelled" THEN "cancelled" ELSE "page"
    /\ UNCHANGED <<current_page, result>>
    /\ Redisplay

(* The directories the selector is invoked on: n backup files, the i-th     *)
(* older than the (i+1)-th.                                                *)

SelDir(n) ==
    [exists |-> TRUE,
     entries |-> [i \in 1..n |->
                    File(<<LowerLetters[i]>> \o
                         (IF i % 3 = 0 THEN E_sql ELSE IF i % 3 = 1 THEN E_dump ELSE E_backup),
                         2 * i)]]

InitSelect ==
    /\ pc = "idle"
    /\ backup_dir \in {MissingDir} \cup {SelDir(n) : n \in 0..MaxFiles}
    /\ page_size \in PageSizes
    /\ \/ os_name = "nt" /\ origMode = "cooked"
       \/ os_name = "posix" /\ origMode \in {"cooked", "cbreak", "notty"}
    /\ termMode = origMode
    /\ old_settings = origMode
    /\ backup_files = <<>>
    /\ current_page = 0
    /\ total_pages = 0
    /\ inRead = FALSE
    /\ lastKey = "none"
    /\ result = None
    /\ notice = "none"
    /\ screen = NoScreen
    /\ BinIdle

NextSelect ==
    \/ Invoke
    \/ EnterRead
    \/ EnterReadFails
    \/ Interrupted
    \/ ReadFails
    \/ KeyQuit
    \/ KeyNext
    \/ KeyPrev
    \/ KeyHelp
    \/ KeyDigit
    \/ KeyOther
    \/ Dismiss

Spec == InitSelect /\ [][NextSelect]_vars

----------------------------------------------------------------------------
(* Claims about the interactive selector (under Spec)                      *)

\* a blocked read of get_single_keypress ends in this step
ReadDone == inRead /\ ~inRead'

\* the number of listed files that fall on a page
FilesOnPage(page) ==
    Cardinality({i \in DOMAIN backup_files : (i - 1) \div page_size = page})

\* the index of the last page that holds a file
LastPage == (Len(backup_files) - 1) \div page_size

DigitValue(key) ==
    CASE key = "1" -> 1 [] key = "2" -> 2 [] key = "3" -> 3 [] key = "4" -> 4
      [] key = "5" -> 5 [] key = "6" -> 6 [] key = "7" -> 7 [] key = "8" -> 8
      [] key = "9" -> 9

\* C2: a digit d (1-9) at the prompt of page `page` selects exactly when d is at
\* most the number of files on that page, and then returns the file at index
\* page*pageSize + d - 1 of the listing; otherwise nothing is selected and the
\* loop goes on, on the same page.
C2_DigitSelects ==
    [][ (pc = "prompt" /\ ReadDone /\ lastKey' \in {"1","2","3","4","5","6","7","8","9"}) =>
          LET d == DigitValue(lastKey') IN
          /\ IF d <= FilesOnPage(current_page)
             THEN /\ pc' = "selected"
                  /\ result' = Some(backup_files[(current_page * page_size + d - 1) + 1].path)
             ELSE /\ pc' \notin Ended
                  /\ result' = None
                  /\ current_page' = current_page
          /\ (page_size = 2 /\ Len(backup_files) = 5 /\ current_page = 1 /\ d = 2)
                => result' = Some(get_backup_files(backup_dir)[4].path)
      ]_vars

\* page size 2, 5 files, digit 2 on page index 1 selected the file at index 3
C2_Witness ==
    /\ pc = "selected"
    /\ page_size = 2
    /\ Len(backup_files) = 5
    /\ current_page = 1
    /\ lastKey = "2"
    /\ result = Some(backup_files[4].path)

\* C3: 'n' on the last page and 'p' on the first page leave the page index
\* unchanged and print a notice; on any other page 'n' adds one to the page
\* index and 'p' takes one off.
C3_PageMoves ==
    [][ (pc = "prompt" /\ ReadDone) =>
          /\ lastKey' = "n" =>
                IF current_page = LastPage
                THEN current_page' = current_page /\ notice' = "last_page" /\ pc' = "pause"
                ELSE current_page' = current_page + 1 /\ pc' = "prompt"
          /\ lastKey' = "p" =>
                IF current_page = 0
                THEN current_page' = current_page /\ notice' = "first_page" /\ pc' = "pause"
                ELSE current_page' = current_page - 1 /\ pc' = "prompt"
      ]_vars

\* 'n' was pressed on the last of at least three pages
C3_Witness ==
    /\ pc = "pause"
    /\ notice = "last_page"
    /\ lastKey = "n"
    /\ current_page >= 2
    /\ current_page = LastPage

\* C4 (as stated): 'q' read at any point of the loop, the reads of the help
\* screen and of the notices included, ends the selector with Cancelled.
C4_QuitAtAnyRead ==
    [][ (pc \in {"prompt", "pause", "help"} /\ ReadDone /\ lastKey' = "q")
            => (pc' = "cancelled" /\ result' = None) ]_vars

\* C4 (amended): 'q' read at the selection prompt, on any page, ends the
\* selector with Cancelled; 'q' read while a help screen, a notice or the
\* error message waits for a key only dismisses it, and the loop goes on, on
\* the same page.
C4_QuitAtPrompt ==
    [][ (ReadDone /\ lastKey' = "q") =>
          IF pc = "prompt"
          THEN pc' = "cancelled" /\ result' = None
          ELSE pc' = "prompt" /\ current_page' = current_page /\ result' = None
      ]_vars

\* 'q' ended the selector from a later page
C4_Witness ==
    /\ pc = "cancelled"
    /\ lastKey = "q"
    /\ current_page >= 1

\* C5: KeyboardInterrupt or EOFError in any read of the selector, the read of
\* the generic error handler included, ends the selector with Cancelled.
C5_InterruptCancels ==
    [][ (ReadDone /\ lastKey' \in {"KeyboardInterrupt", "EOFError"})
            => (pc' = "cancelled" /\ result' = None) ]_vars

\* C6: whenever no read is in progress the terminal is in the mode it had
\* before raw mode was entered, however the read ended; it is never left in
\* raw mode when the selector has returned or raised.
C6_TerminalRestored ==
    /\ ~inRead => termMode = origMode
    /\ (inRead /\ os_name = "posix") => (termMode = "raw" /\ old_settings = origMode)
    /\ pc \in Ended => termMode # "raw"

\* an interruption left the selector by the handler, the terminal restored
C6_Witness ==
    /\ pc = "raised"
    /\ lastKey = "KeyboardInterrupt"
    /\ os_name = "posix"
    /\ origMode = "cbreak"
    /\ termMode = "cbreak"

\* C11: the number shown next to a file is its place on the page counted from
\* 1, which is the digit that selects it; the header shows
\* ceil(totalFiles / pageSize) pages.
C11_ShownIndexIsTheDigit ==
    pc = "prompt" =>
        /\ screen.of * page_size >= Len(backup_files)
        /\ (screen.of - 1) * page_size < Len(backup_files)
        /\ Len(screen.rows) = FilesOnPage(current_page)
        /\ \A i \in DOMAIN screen.rows :
              /\ screen.rows[i].name = backup_files[current_page * page_size + i].path
              /\ screen.rows[i].idx = i

\* the keys a read can return, as the loop compares them
LoweredKeys == {LowerChar(k) : k \in RawKeys}

\* a key the prompt neither moves on, quits on nor selects with
IsNoOpKey(key) ==
    \/ key = "h"
    \/ key = "0"
    \/ key \in {"1","2","3","4","5","6","7","8","9"} /\ DigitValue(key) > FilesOnPage(current_page)
    \/ key \notin {"n", "p", "h", "q", "0", "1","2","3","4","5","6","7","8","9"}

\* C12: 'h', an out-of-range digit (0 included) and any key other than
\* n/p/h/q/digit leave the page index and the file list as they are and end
\* nothing: the help screen or the notice waits for exactly one keypress, and
\* that keypress brings the loop back to the prompt on the same page.
C12_NoOpKeys ==
    [][ /\ (pc = "prompt" /\ ReadDone /\ lastKey' \in LoweredKeys /\ IsNoOpKey(lastKey')) =>
              /\ pc' = IF lastKey' = "h" THEN "help" ELSE "pause"
              /\ current_page' = current_page
              /\ backup_files' = backup_files
              /\ total_pages' = total_pages
              /\ result' = None
        /\ (pc \in {"help", "pause"} /\ ReadDone /\ lastKey' \in LoweredKeys) =>
              /\ pc' = "prompt"
              /\ current_page' = current_page
              /\ backup_files' = backup_files
              /\ total_pages' = total_pages
              /\ result' = None
              /\ screen' = screen
      ]_vars

\* digit 0 was rejected on a later page, and the notice waits for a key
C12_Witness ==
    /\ pc = "pause"
    /\ notice = "invalid_selection"
    /\ lastKey = "0"
    /\ current_page >= 1
    /\ result = None

\* C13: restore runs the tool at the path the four-source resolution returns
\* for it (pg_restore for .backup/.dump, psql otherwise), and when the
\* resolution finds nothing the error is the resolver's KoggiError with its
\* hint.
C13_RestoreUsesResolver ==
    pc = "restored" =>
        LET info == detect_platform(sys_platform, machine)
            p    == _lookup_binary(environ, fs, info, name)
        IN IF p.ok
           THEN resolved = [kind |-> "path", path |-> p.path]
           ELSE resolved = [kind |-> "KoggiError", path |-> <<>>]

\* C14: restore_database without a backup file restores exactly the file the
\* latest-selector returns for the backup directory (un-stat-able files
\* skipped, same tie-breaking), and raises KoggiError 'No backup file found'
\* exactly when the latest-selector returns none.
C14_RestoreLatestIsSelectLatest ==
    pc = "restore_latest" =>
        LET latest == quick_latest_selector(backup_dir)
        IN /\ ~latest.ok <=> notice = "KoggiError_no_backup_file"
           /\ notice # "OSError"
           /\ notice = "restored" => result = latest

\* C15: with a non-empty listing the page index starts at 0 when the selector
\* is invoked and stays within 0 <= current_page < total_pages whatever keys
\* are pressed, the current page always holds at least one file, and a file
\* the selector returns is one of the listing taken at invocation.
C15_PageWithinRange ==
    /\ [](pc \notin {"idle", "nofiles"} =>
            /\ backup_files = get_backup_files(backup_dir)
            /\ backup_files # <<>>
            /\ total_pages * page_size >= Len(backup_files)
            /\ (total_pages - 1) * page_size < Len(backup_files)
            /\ 0 <= current_page
            /\ current_page < total_pages
            /\ FilesOnPage(current_page) >= 1
            /\ result.ok =>
                  \E i \in DOMAIN get_backup_files(backup_dir) :
                      get_backup_files(backup_dir)[i].path = result.path)
    /\ [][ pc = "idle" => current_page' = 0 ]_vars

\* a file was selected from a last page that is the third or later and holds
\* a single file
C15_Witness ==
    /\ pc = "selected"
    /\ result.ok
    /\ current_page >= 2
    /\ current_page = total_pages - 1
    /\ FilesOnPage(current_page) = 1

\* C16: no listed file is out of reach. Every page is reached from page 0 by
\* 'n' (C3) and a file is returned only by a digit read at the prompt of its
\* page, so the claim is that, whenever the prompt of a page waits for a key,
\* each file of that page is selected by some key.
C16_EveryFileSelectable ==
    (pc = "prompt" /\ inRead) =>
        \A i \in DOMAIN backup_files :
            (i - 1) \div page_size = current_page =>
                ENABLED (KeyDigit /\ pc' = "selected" /\ result' = Some(backup_files[i].path))

====
